---------------------------- MODULE Spec2Model ----------------------------
(***************************************************************************)
(* Policy Sentinel: the audit orchestration pipeline.                      *)
(*                                                                         *)
(*   app/services/audit.py      call_groq, validate_policy_document,       *)
(*                              extract_policy_rules,                      *)
(*                              audit_model_against_rule, run_full_audit   *)
(*   app/schemas.py             Rule, Evidence, AuditItem, AuditResponse   *)
(*   app/services/ingestion.py  get_available_models                       *)
(*   app/services/database.py   store_audit_result                         *)
(*   app/main.py                analyze_policy (batch),                    *)
(*                              analyze_policy_stream.event_generator      *)
(*                                                                         *)
(* A text returned by the judgment model is a sequence of tokens           *)
(*   "fence_json" (three backticks and json)  "fence" (three backticks)    *)
(*   "ws" (white space)  "junk" (any other characters)                     *)
(*   "value" (the characters of one JSON value, the response's payload).   *)
(* Python floats that the program uses (10.0, 20.0, 50.0, 0.0, 100.0) are  *)
(* integers here.  Model names are the integers 1..MaxModels; their        *)
(* numeric order is the order sorted() gives the names.                    *)
(***************************************************************************)
EXTENDS Integers, Sequences, FiniteSets, TLC

\* ------------------------------------------------------------------ bounds
MaxModels == 2      \* model names that may occur in the vector store
MaxRules == 3       \* longest rule list the judgment model emits
MaxCells == 5       \* largest models x rules matrix explored
MaxItems == 4       \* longest audit_results list handed to the aggregator
MaxConcCells == 2   \* largest matrix of each of two concurrent runs

\* ------------------------------------------------------------- small helpers
Min(a, b) == IF a < b THEN a ELSE b
Max(a, b) == IF a > b THEN a ELSE b

RECURSIVE SeqsUpTo(_, _)
\* all sequences over S of length 0..n
SeqsUpTo(S, n) ==
  IF n = 0 THEN {<<>>}
  ELSE LET shorter == SeqsUpTo(S, n - 1)
       IN shorter \cup {Append(s, x) : s \in shorter, x \in S}

Range(s) == {s[i] : i \in 1..Len(s)}

\* --------------------------------------------- str.strip() and the re.sub's
RECURSIVE lstrip(_)
lstrip(t) == IF t # <<>> /\ Head(t) = "ws" THEN lstrip(Tail(t)) ELSE t

RECURSIVE rstrip(_)
rstrip(t) ==
  IF t # <<>> /\ t[Len(t)] = "ws" THEN rstrip(SubSeq(t, 1, Len(t) - 1)) ELSE t

strip(t) == rstrip(lstrip(t))

\* re.sub of a leading json fence and the white space after it
sub_leading_fence_json(t) ==
  IF t # <<>> /\ Head(t) = "fence_json" THEN lstrip(Tail(t)) ELSE t

\* re.sub of a leading bare fence and the white space after it
sub_leading_fence(t) ==
  IF t # <<>> /\ Head(t) = "fence" THEN lstrip(Tail(t)) ELSE t

\* re.sub of a trailing fence and the white space before it
sub_trailing_fence(t) ==
  IF t # <<>> /\ t[Len(t)] = "fence"
  THEN rstrip(SubSeq(t, 1, Len(t) - 1)) ELSE t

\* call_groq(prompt).strip() followed by the three re.sub's and .strip()
clean_response(t) ==
  strip(sub_trailing_fence(sub_leading_fence(sub_leading_fence_json(strip(t)))))

\* json.loads: exactly one JSON value, white space allowed around it;
\* anything else raises JSONDecodeError
json_loads(t) ==
  IF strip(t) = <<"value">> THEN "ok" ELSE "JSONDecodeError"

\* ------------------------------------------------------------- JSON values
\* A JSON scalar is tagged with its type; a key that is absent from an
\* object is JMissing.
JMissing == [t |-> "missing", n |-> 0, s |-> ""]
JNum(x) == [t |-> "num", n |-> x, s |-> ""]
JStr(x) == [t |-> "str", n |-> 0, s |-> x]

\* the JSON value of a verdict response: an object with the four keys the
\* prompt asks for (any of them possibly absent or ill-typed), or an array
JVerdict(status, confidence, quote, reason) ==
  [type |-> "object", status |-> status, confidence |-> confidence,
   quote |-> quote, reason |-> reason]

JArray ==
  [type |-> "array", status |-> JMissing, confidence |-> JMissing,
   quote |-> JMissing, reason |-> JMissing]

\* float(x): a JSON number converts; the strings of this model are not
\* numerals, so float() raises ValueError on them
float_raises(j) == j.t # "num"

\* ------------------------------------------------------ exceptions raised
\* an exception is its type and the length of str(e)
Exc(type, len) == [type |-> type, len |-> len]

\* ------------------------------------------------------ schemas.Evidence
\* pydantic validation of Evidence(**kwargs): status is one of the two
\* Literal values, confidence is a required float, quote and reason are
\* required strings
EvidenceValid(kwargs) ==
  /\ kwargs.status.t = "str" /\ kwargs.status.s \in {"PASS", "FAIL"}
  /\ kwargs.confidence.t = "num"
  /\ kwargs.quote.t = "str"
  /\ kwargs.reason.t = "str"

\* Evidence(**kwargs): the constructed value, or ok = FALSE when pydantic
\* raises ValidationError.  reason_tail is the number of characters of
\* error text appended to the reason literal.
Evidence(kwargs) ==
  [ok |-> EvidenceValid(kwargs),
   value |-> [status |-> kwargs.status.s, confidence |-> kwargs.confidence.n,
              quote |-> kwargs.quote.s, reason |-> kwargs.reason.s,
              reason_tail |-> kwargs.reason.n]]

\* ----------------------------------------------- audit.py: the three tiers
top_k == 3

\* variant: the no-documentation tier reports the parse-error confidence
NoDocumentationKwargs_ParseConfidence ==
  [status |-> JStr("FAIL"), confidence |-> JNum(10),
   quote |-> JStr("No documentation available"),
   reason |-> JStr("No documentation found for this model, assuming non-compliance.")]

\* audit.py:202-207
NoDocumentationKwargs ==
  [status |-> JStr("FAIL"), confidence |-> JNum(20),
   quote |-> JStr("No documentation available"),
   reason |-> JStr("No documentation found for this model, assuming non-compliance.")]

\* variant: the parse-error tier reports the no-documentation confidence
ParseErrorKwargs_NoDocConfidence ==
  [status |-> JStr("FAIL"), confidence |-> JNum(20),
   quote |-> JStr("Error occurred during analysis"),
   reason |-> JStr("Error parsing LLM response.")]

\* audit.py:256-261
ParseErrorKwargs ==
  [status |-> JStr("FAIL"), confidence |-> JNum(10),
   quote |-> JStr("Error occurred during analysis"),
   reason |-> JStr("Error parsing LLM response.")]

\* audit.py:264-268: no confidence is passed; the reason is the literal
\* followed by str(e)[:100]
OtherErrorKwargs(e) ==
  [status |-> JStr("N/A"), confidence |-> JMissing, quote |-> JStr(""),
   reason |-> [t |-> "str", n |-> Min(e.len, 100), s |-> "Error during audit: "]]

\* variant: a reported confidence is passed through without clamping
clamp_confidence_NoClamp(data) ==
  IF data.confidence.t # "missing"
  THEN [data EXCEPT !.confidence = JNum(data.confidence.n)]
  ELSE [data EXCEPT !.confidence = JNum(50)]

\* audit.py:246-250: clamp a reported confidence into [0, 100], default 50
clamp_confidence(data) ==
  IF data.confidence.t # "missing"
  THEN [data EXCEPT !.confidence = JNum(Max(0, Min(100, data.confidence.n)))]
  ELSE [data EXCEPT !.confidence = JNum(50)]

\* the keyword arguments Evidence(**evidence_data) receives
VerdictKwargs(data) ==
  [status |-> data.status, confidence |-> data.confidence,
   quote |-> data.quote, reason |-> data.reason]

\* ---------------------------------------------- collaborators' outcomes
\* vectorstore.similarity_search: raises, or returns n chunks, 0 <= n <= k
RetrievalOutcomes ==
  {[kind |-> "raise", n |-> 0, exception |-> Exc("ConnectionError", 150)]}
  \cup {[kind |-> "docs", n |-> i, exception |-> Exc("", 0)] : i \in 0..top_k}

\* texts the judgment model may answer with
JudgeTexts ==
  { <<>>, <<"junk">>, <<"value">>, <<"ws", "value", "ws">>,
    <<"fence_json", "ws", "value", "ws", "fence">>,
    <<"fence", "ws", "value", "ws", "fence">>,
    <<"fence_json", "fence", "value">>,
    <<"fence", "junk", "ws", "value", "ws", "fence">>,
    <<"value", "value">>, <<"junk", "value">> }

ReportedConfidences == {JNum(-5), JNum(85), JNum(150), JMissing}

VerdictPayloads ==
  {JVerdict(JStr(st), c, JStr("quoted text"), JStr("verdict reason")) :
      st \in {"PASS", "FAIL"}, c \in ReportedConfidences}
  \cup
  { JVerdict(JStr("N/A"), JNum(85), JStr("quoted text"), JStr("verdict reason")),
    JVerdict(JMissing, JNum(85), JStr("quoted text"), JStr("verdict reason")),
    JVerdict(JStr("PASS"), JNum(85), JMissing, JStr("verdict reason")),
    JVerdict(JStr("PASS"), JNum(85), JStr("quoted text"), JNum(1)),
    JVerdict(JStr("PASS"), JStr("high"), JStr("quoted text"), JStr("verdict reason")),
    JArray }

\* call_groq: raises (no API key, API error), returns None as the message
\* content, or returns a text
LlmRaise == [kind |-> "raise", text |-> <<>>, payload |-> JArray,
             exception |-> Exc("APIError", 40)]
LlmNone == [kind |-> "none", text |-> <<>>, payload |-> JArray,
            exception |-> Exc("AttributeError", 44)]
LlmText(t, p) == [kind |-> "text", text |-> t, payload |-> p,
                  exception |-> Exc("", 0)]

JudgeOutcomes ==
  {LlmRaise, LlmNone} \cup {LlmText(t, p) : t \in JudgeTexts, p \in VerdictPayloads}

\* ------------------------------------- audit.py: audit_model_against_rule
\* The result of one call: raised = TRUE when an exception leaves the
\* function, else evidence is the returned Evidence; calls lists the
\* external calls the function made, in order.
NoEvidence ==
  [status |-> "", confidence |-> 0, quote |-> "", reason |-> "", reason_tail |-> 0]

CellReturn(ev, calls) ==
  [raised |-> FALSE, exception |-> "", evidence |-> ev, calls |-> calls]

CellRaise(type, calls) ==
  [raised |-> TRUE, exception |-> type, evidence |-> NoEvidence, calls |-> calls]

\* except json.JSONDecodeError (audit.py:254-261)
OnJSONDecodeError(calls) ==
  LET ev == Evidence(ParseErrorKwargs)
  IN IF ev.ok THEN CellReturn(ev.value, calls)
     ELSE CellRaise("ValidationError", calls)

\* except Exception (audit.py:262-268)
OnException(e, calls) ==
  LET ev == Evidence(OtherErrorKwargs(e))
  IN IF ev.ok THEN CellReturn(ev.value, calls)
     ELSE CellRaise("ValidationError", calls)

\* return Evidence(**kwargs) inside the try block
ReturnEvidence(kwargs, calls) ==
  LET ev == Evidence(kwargs)
  IN IF ev.ok THEN CellReturn(ev.value, calls)
     ELSE OnException(Exc("ValidationError", 200), calls)

audit_model_against_rule(model_name, rule, ret, llm) ==
  LET search == [service |-> "similarity_search", query |-> rule.question,
                 k |-> top_k, filter |-> model_name]
      groq == [service |-> "call_groq", query |-> rule.question,
               k |-> 0, filter |-> model_name]
  IN IF ret.kind = "raise" THEN OnException(ret.exception, <<search>>)
     ELSE IF ret.n = 0 THEN ReturnEvidence(NoDocumentationKwargs, <<search>>)
     ELSE IF llm.kind # "text" THEN OnException(llm.exception, <<search, groq>>)
     ELSE IF json_loads(clean_response(llm.text)) = "JSONDecodeError"
          THEN OnJSONDecodeError(<<search, groq>>)
     ELSE IF llm.payload.type # "object"
          THEN OnException(Exc("TypeError", 60), <<search, groq>>)
     ELSE IF llm.payload.confidence.t # "missing"
             /\ float_raises(llm.payload.confidence)
          THEN OnException(Exc("ValueError", 45), <<search, groq>>)
     ELSE ReturnEvidence(VerdictKwargs(clamp_confidence(llm.payload)),
                         <<search, groq>>)


\* the responses the orchestrator-level exploration draws for a cell: one
\* per way a cell can end (call fails, text does not parse, a fenced PASS
\* verdict, a verdict pydantic rejects); every response is explored for a
\* single cell under CellSpec
RunJudgeOutcomes ==
  { LlmRaise,
    LlmText(<<"junk">>, JArray),
    LlmText(<<"fence_json", "ws", "value", "ws", "fence">>,
            JVerdict(JStr("PASS"), JNum(85), JStr("quoted text"), JStr("verdict reason"))),
    LlmText(<<"value">>,
            JVerdict(JStr("N/A"), JNum(85), JStr("quoted text"), JStr("verdict reason"))) }

\* ------------------------------------- audit.py: validate_policy_document
JBool(b) == [t |-> "bool", n |-> IF b THEN 1 ELSE 0, s |-> ""]

\* Python truthiness of a JSON scalar
Truthy(j) ==
  \/ j.t = "bool" /\ j.n = 1
  \/ j.t = "num" /\ j.n # 0
  \/ j.t = "str" /\ j.s # ""

JValidation(is_policy, reasoning) ==
  [type |-> "object", is_policy |-> is_policy, reasoning |-> reasoning]

JValidationArray ==
  [type |-> "array", is_policy |-> JMissing, reasoning |-> JMissing]

ValidatorPayloads ==
  { JValidation(JBool(TRUE), JStr("looks like a policy")),
    JValidation(JBool(FALSE), JStr("not a policy")),
    JValidation(JMissing, JStr("looks like a policy")),
    JValidation(JBool(TRUE), JMissing),
    JValidation(JBool(FALSE), JMissing),
    JValidationArray }

ValidatorOutcomes ==
  {LlmRaise, LlmNone}
  \cup {LlmText(t, p) : t \in JudgeTexts, p \in ValidatorPayloads}

\* audit.py:95
FailOpenValidation ==
  JValidation(JBool(TRUE),
    JStr("Validation check could not be performed, proceeding with analysis"))

\* audit.py:80-95: whatever json.loads returns is returned unchecked
validate_policy_document(llm) ==
  IF llm.kind # "text" THEN FailOpenValidation
  ELSE IF json_loads(clean_response(llm.text)) = "JSONDecodeError"
       THEN FailOpenValidation
  ELSE llm.payload

\* variant: the callers go on whatever is_policy holds
ValidationVerdict_IgnoresVerdict(validation_result) ==
  IF validation_result.type # "object" THEN "raise"
  ELSE IF validation_result.is_policy.t = "missing" THEN "raise"
  ELSE IF validation_result.reasoning.t = "missing" THEN "raise"
  ELSE "pass"

\* what the callers do with the result (main.py:208-214, 323-340):
\*   "raise"   subscripting the result raises (not an object, is_policy
\*             absent, or reasoning absent when the message is formatted)
\*   "reject"  is_policy is falsy
\*   "pass"    is_policy is truthy
ValidationVerdict(validation_result) ==
  IF validation_result.type # "object" THEN "raise"
  ELSE IF validation_result.is_policy.t = "missing" THEN "raise"
  ELSE IF validation_result.reasoning.t = "missing" THEN "raise"
  ELSE IF ~Truthy(validation_result.is_policy) THEN "reject"
  ELSE "pass"

\* -------------------------------------------- schemas.Rule, rule extraction
MakeRule(id, category, question) ==
  [id |-> id, category |-> category, question |-> question]

JRule(id, category, question) ==
  [id |-> id, category |-> category, question |-> question]

\* pydantic validation of Rule(**rule_dict): three required strings
RuleValid(d) == d.id.t = "str" /\ d.category.t = "str" /\ d.question.t = "str"

\* audit.py:164-172
get_fallback_rules ==
  << MakeRule("1", "Safety", "Does the model document red-teaming or adversarial testing?"),
     MakeRule("2", "Data", "Is the training data composition disclosed?"),
     MakeRule("3", "Transparency", "Are model limitations clearly documented?"),
     MakeRule("4", "Evaluation", "Are benchmark results provided?"),
     MakeRule("5", "Documentation", "Is there a model card or system card available?") >>

\* rule objects the judgment model may emit: two well-formed rules, a rule
\* repeating the id of the first, and an object lacking its question
EmittedRules ==
  { JRule(JStr("1"), JStr("Safety"), JStr("Is red-teaming documented?")),
    JRule(JStr("2"), JStr("Data"), JStr("Is the training data disclosed?")),
    JRule(JStr("1"), JStr("Data"), JStr("Is data retention documented?")),
    JRule(JStr("3"), JStr("Safety"), JMissing) }

JRuleList(items) == [type |-> "array", items |-> items]
\* a JSON object with at least one key, and the empty object
JRuleObject == [type |-> "object", items |-> <<>>]
JRuleEmptyObject == [type |-> "empty_object", items |-> <<>>]

ExtractorPayloads ==
  {JRuleList(items) : items \in SeqsUpTo(EmittedRules, MaxRules)}
  \cup {JRuleObject, JRuleEmptyObject}

ExtractorTexts ==
  { <<"junk">>, <<"value">>, <<"fence_json", "ws", "value", "ws", "fence">> }

ExtractorOutcomes ==
  {LlmRaise, LlmNone}
  \cup {LlmText(t, p) : t \in ExtractorTexts, p \in ExtractorPayloads}

\* variant: an item that is not a valid rule is skipped
extract_policy_rules_SkipInvalid(llm) ==
  IF llm.kind # "text" THEN get_fallback_rules
  ELSE IF json_loads(clean_response(llm.text)) = "JSONDecodeError"
       THEN get_fallback_rules
  ELSE IF llm.payload.type = "object" THEN get_fallback_rules
  ELSE LET valid == SelectSeq(llm.payload.items, RuleValid)
       IN [k \in 1..Len(valid) |->
             MakeRule(valid[k].id.s, valid[k].category.s, valid[k].question.s)]

\* audit.py:136-161; the comprehension [Rule(**r) for r in rules_data]
\* raises TypeError on the keys of a non-empty object and yields [] on an
\* empty object or an empty array
extract_policy_rules(llm) ==
  IF llm.kind # "text" THEN get_fallback_rules
  ELSE IF json_loads(clean_response(llm.text)) = "JSONDecodeError"
       THEN get_fallback_rules
  ELSE IF llm.payload.type = "object" THEN get_fallback_rules
  ELSE IF \E k \in 1..Len(llm.payload.items) : ~RuleValid(llm.payload.items[k])
       THEN get_fallback_rules
  ELSE [k \in 1..Len(llm.payload.items) |->
          MakeRule(llm.payload.items[k].id.s, llm.payload.items[k].category.s,
                   llm.payload.items[k].question.s)]


\* ------------------------------------------------- schemas.AuditItem et al.
\* audit.py:300-306
AuditItem(model_name, rule, evidence) ==
  [model_name |-> model_name, rule_id |-> rule.id,
   rule_question |-> rule.question, rule_category |-> rule.category,
   evidence |-> evidence]

\* main.py:409-413: the dict the streaming loop collects per cell
StreamItem(model, rule, evidence) ==
  [model_name |-> model, rule |-> rule, evidence |-> evidence]

AuditItemFields ==
  {"model_name", "rule_id", "rule_question", "rule_category", "evidence"}

\* pydantic validation of AuditItem(**item): every field is required,
\* unknown keys are ignored
AuditItemValid(item) == AuditItemFields \subseteq DOMAIN item

\* AuditItem(**item) of a valid dict
AuditItemFromDict(item) == [f \in AuditItemFields |-> item[f]]

\* schemas.AuditResponse
AuditResponse(policy_name, rules, model_names, audit_results) ==
  [policy_name |-> policy_name, total_rules |-> Len(rules),
   total_models |-> Len(model_names), rules |-> rules,
   audit_results |-> audit_results]

NoBody == AuditResponse("", <<>>, <<>>, <<>>)

\* database.py:27-35 (the two creation stamps are not modelled)
audit_doc(audit_response) == audit_response

\* ---------------------------------------------------- ingestion.py:123-138
ModelNames == 1..MaxModels

RECURSIVE SortedSeq(_)
SortedSeq(S) ==
  IF S = {} THEN <<>>
  ELSE LET least == CHOOSE x \in S : \A y \in S : x <= y
       IN <<least>> \o SortedSeq(S \ {least})

get_available_models(vs) == SortedSeq(vs.model_names)

\* ------------------------------------------------------ the nested loops
\* variant: the inner loop stops one rule short
NextCell_SkipLastRule(i, j, nrules) ==
  IF j + 1 < nrules THEN <<i, j + 1>> ELSE <<i + 1, 1>>

\* variant: the inner index is not reset when the outer loop advances
NextCell_NoReset(i, j, nrules) ==
  IF j < nrules THEN <<i, j + 1>> ELSE <<i + 1, j>>

\* the cell the two for loops visit after cell (i, j)
NextCell(i, j, nrules) ==
  IF j < nrules THEN <<i, j + 1>> ELSE <<i + 1, 1>>

\* variant: the percentage is cut after its first decimal
RoundTenths_Truncates(completed, total) ==
  (completed * 1000) \div total

\* round(completed / total * 100, 1), in tenths of a percent, half to even
RoundTenths(completed, total) ==
  LET q == (completed * 1000) \div total
      rem == (completed * 1000) % total
  IN IF 2 * rem > total THEN q + 1
     ELSE IF 2 * rem < total THEN q
     ELSE IF q % 2 = 0 THEN q ELSE q + 1

\* ------------------------------- dashboard.py: calculate_dashboard_stats
\* Percentages and averages are integers counting tenths, as round(x, 1)
\* leaves one decimal.  None is the empty option, a name n is <<n>>.
None == <<>>
Some(x) == <<x>>

\* the keys of a dict filled in one pass over seq, in insertion order
RECURSIVE FirstAppearance(_)
FirstAppearance(seq) ==
  IF seq = <<>> THEN <<>>
  ELSE LET front == FirstAppearance(SubSeq(seq, 1, Len(seq) - 1))
           last == seq[Len(seq)]
       IN IF last \in Range(front) THEN front ELSE Append(front, last)

RECURSIVE SumConfidence(_)
SumConfidence(items) ==
  IF items = <<>> THEN 0
  ELSE items[1].evidence.confidence + SumConfidence(Tail(items))

\* round(num / den, 1) in tenths, half to even
RoundAvgTenths(num, den) ==
  LET q == (num * 10) \div den
      rem == (num * 10) % den
  IN IF 2 * rem > den THEN q + 1
     ELSE IF 2 * rem < den THEN q
     ELSE IF q % 2 = 0 THEN q ELSE q + 1

OfModel(item, m) == item.model_name = m
HasStatus(item, st) == item.evidence.status = st

\* variant: total is incremented for PASS items only
model_stats_TotalCountsPass(audit_results, m) ==
  LET mine == SelectSeq(audit_results, LAMBDA it : OfModel(it, m))
  IN [PASS |-> Len(SelectSeq(mine, LAMBDA it : HasStatus(it, "PASS"))),
      FAIL |-> Len(SelectSeq(mine, LAMBDA it : HasStatus(it, "FAIL"))),
      total |-> Len(SelectSeq(mine, LAMBDA it : HasStatus(it, "PASS"))),
      avg_confidence |-> SumConfidence(mine)]

\* dashboard.py:18-28: the counters the loop accumulates for one model
model_stats(audit_results, m) ==
  LET mine == SelectSeq(audit_results, LAMBDA it : OfModel(it, m))
  IN [PASS |-> Len(SelectSeq(mine, LAMBDA it : HasStatus(it, "PASS"))),
      FAIL |-> Len(SelectSeq(mine, LAMBDA it : HasStatus(it, "FAIL"))),
      total |-> Len(mine),
      avg_confidence |-> SumConfidence(mine)]

\* variant: the score is the share of failed checks
ranking_entry_FailShare(m, stats) ==
  [model_name |-> m,
   compliance_score |-> IF stats.total > 0
                        THEN RoundTenths(stats.FAIL, stats.total) ELSE 0,
   avg_confidence |-> IF stats.total > 0
                      THEN RoundAvgTenths(stats.avg_confidence, stats.total) ELSE 0,
   pass_count |-> stats.PASS, fail_count |-> stats.FAIL,
   total_rules |-> stats.total]

\* dashboard.py:35-47: one entry of model_rankings
ranking_entry(m, stats) ==
  [model_name |-> m,
   compliance_score |-> IF stats.total > 0
                        THEN RoundTenths(stats.PASS, stats.total) ELSE 0,
   avg_confidence |-> IF stats.total > 0
                      THEN RoundAvgTenths(stats.avg_confidence, stats.total) ELSE 0,
   pass_count |-> stats.PASS, fail_count |-> stats.FAIL,
   total_rules |-> stats.total]

\* variant: an entry goes before the entries of equal score
InsertRanked_TiesFirst(sorted, e) ==
  LET p == Cardinality({k \in 1..Len(sorted) :
                          sorted[k].compliance_score > e.compliance_score})
  IN SubSeq(sorted, 1, p) \o <<e>> \o SubSeq(sorted, p + 1, Len(sorted))

\* list.sort is stable, with reverse=True too: an entry goes after every
\* entry of greater or equal score that preceded it
InsertRanked(sorted, e) ==
  LET p == Cardinality({k \in 1..Len(sorted) :
                          sorted[k].compliance_score >= e.compliance_score})
  IN SubSeq(sorted, 1, p) \o <<e>> \o SubSeq(sorted, p + 1, Len(sorted))

\* dashboard.py:50: model_rankings.sort(key=compliance_score, reverse=True)
RECURSIVE sort_by_compliance(_)
sort_by_compliance(entries) ==
  IF entries = <<>> THEN <<>>
  ELSE InsertRanked(sort_by_compliance(SubSeq(entries, 1, Len(entries) - 1)),
                    entries[Len(entries)])

\* dashboard.py:52-63: one entry of category_breakdown
category_entry(audit_results, c) ==
  LET mine == SelectSeq(audit_results, LAMBDA it : it.rule_category = c)
      pass == Len(SelectSeq(mine, LAMBDA it : HasStatus(it, "PASS")))
      fail == Len(SelectSeq(mine, LAMBDA it : HasStatus(it, "FAIL")))
  IN [category |-> c, pass_count |-> pass, fail_count |-> fail,
      pass_rate |-> IF pass + fail > 0 THEN RoundTenths(pass, pass + fail) ELSE 0]

\* variant: an empty ranking is reported with an overall score of 100
overall_compliance_EmptyIsFull(total_pass, total_checks) ==
  IF total_checks > 0 THEN RoundTenths(total_pass, total_checks) ELSE 1000

\* variant: the overall score is the share of failed checks
overall_compliance_FailShare(total_pass, total_checks) ==
  IF total_checks > 0
  THEN RoundTenths(total_checks - total_pass, total_checks) ELSE 0

\* dashboard.py:69 and 73
overall_compliance(total_pass, total_checks) ==
  IF total_checks > 0 THEN RoundTenths(total_pass, total_checks) ELSE 0

\* dashboard.py:14-82 (rules is not read)
calculate_dashboard_stats(audit_results, rules) ==
  LET names == FirstAppearance([k \in 1..Len(audit_results) |->
                                  audit_results[k].model_name])
      categories == FirstAppearance([k \in 1..Len(audit_results) |->
                                       audit_results[k].rule_category])
      model_rankings ==
        sort_by_compliance([k \in 1..Len(names) |->
          ranking_entry(names[k], model_stats(audit_results, names[k]))])
      total_checks == Len(audit_results)
      total_pass == Len(SelectSeq(audit_results, LAMBDA it : HasStatus(it, "PASS")))
      total_fail == Len(SelectSeq(audit_results, LAMBDA it : HasStatus(it, "FAIL")))
  IN [overall_compliance |-> overall_compliance(total_pass, total_checks),
      total_checks |-> total_checks,
      total_pass |-> total_pass,
      total_fail |-> total_fail,
      avg_confidence |-> IF total_checks > 0
                         THEN RoundAvgTenths(SumConfidence(audit_results), total_checks)
                         ELSE 0,
      model_rankings |-> model_rankings,
      category_breakdown |-> [k \in 1..Len(categories) |->
                                category_entry(audit_results, categories[k])],
      best_model |-> IF model_rankings # <<>>
                     THEN Some(model_rankings[1].model_name) ELSE None,
      worst_model |-> IF model_rankings # <<>>
                      THEN Some(model_rankings[Len(model_rankings)].model_name)
                      ELSE None]

\* --------------------------------------------------------------- requests
MinPolicyChars == 100

EndsWithPdf(filename) == filename = "policy.pdf"

\* an uploaded file: its name, whether pypdf can read it, and the number
\* of characters of text it yields
Uploads ==
  { [filename |-> "policy.docx", readable |-> TRUE, chars |-> 100],
    [filename |-> "policy.pdf", readable |-> FALSE, chars |-> 0] }
  \cup {[filename |-> "policy.pdf", readable |-> TRUE, chars |-> n] :
          n \in {0, MinPolicyChars - 1, MinPolicyChars}}

RunIds == {1}
Modes == {"batch", "stream"}

Http(status, detail) == [status |-> status, detail |-> detail, body |-> NoBody]
NoResponse == Http(0, "")

\* ------------------------------------------------------------------ state
VARIABLES
  vectorstore,        \* main.py: the global Chroma handle (or None) and the
                      \* model names in its metadata
  audits_collection,  \* database.py: the documents inserted, oldest first
  run                 \* per request: the handler's local variables, its
                      \* position, the events it has yielded, its HTTP
                      \* response, the log of external calls it made, the
                      \* cells it evaluated (by loop indices), and for a
                      \* direct call of audit_model_against_rule the
                      \* collaborators' outcomes and the call's result

vars == <<vectorstore, audits_collection, run>>

InitRun(mode, upload) ==
  [mode |-> mode, upload |-> upload, pc |-> "start",
   policy_text |-> 0, validation_result |-> JValidationArray,
   rules |-> <<>>, model_names |-> <<>>, total_audits |-> 0,
   audit_results |-> <<>>, i |-> 0, j |-> 0, current |-> 0, completed |-> 0,
   events |-> <<>>, response |-> NoResponse, stored_id |-> 0,
   calls |-> <<>>, evaluated |-> <<>>, extract_in |-> LlmRaise,
   stats_log |-> <<>>, disconnected |-> FALSE, stalled |-> FALSE,
   cell_in |-> [ret |-> CHOOSE x \in RetrievalOutcomes : x.kind = "raise",
                llm |-> LlmRaise],
   cell_out |-> CellRaise("", <<>>)]

Init ==
  /\ vectorstore \in
       {[initialized |-> FALSE, model_names |-> {}]}
       \cup {[initialized |-> TRUE, model_names |-> S] : S \in SUBSET ModelNames}
  /\ audits_collection = <<>>
  /\ run \in [RunIds -> {InitRun(m, u) : m \in Modes, u \in Uploads}]

Set(r, frame) == run' = [run EXCEPT ![r] = frame]

\* the handler ends by raising HTTPException(status, detail)
Reject(frame, status, detail) ==
  [frame EXCEPT !.pc = "done", !.response = Http(status, detail)]


\* main.py:179-189 and 278-288: the checks both endpoints make first
EndpointGuard(upload) ==
  IF ~vectorstore.initialized
  THEN Http(500, "Vector store not initialized. Check server logs.")
  ELSE IF ~EndsWithPdf(upload.filename)
  THEN Http(400, "Only PDF files are supported")
  ELSE NoResponse

ValidateCall(frame) ==
  [service |-> "call_groq", purpose |-> "validate",
   chars |-> Min(frame.policy_text, 5000)]

ExtractCall(frame) ==
  [service |-> "call_groq", purpose |-> "extract_rules",
   chars |-> Min(frame.policy_text, 15000)]

\* audits_collection.insert_one (database.py:37): accepted or raising
InsertCall(ok) == [service |-> "insert_one", ok |-> ok]

\* the explored matrix is bounded by MaxCells
WithinMatrixBound(rules) ==
  Len(rules) * Cardinality(vectorstore.model_names) <= MaxCells

\* ------------------------------------------ main.py: analyze_policy (batch)
\* main.py:179-202
BatchBegin(r) ==
  /\ run[r].mode = "batch" /\ run[r].pc = "start"
  /\ LET f == run[r]
         guard == EndpointGuard(f.upload)
     IN Set(r,
          IF guard # NoResponse THEN [f EXCEPT !.pc = "done", !.response = guard]
          ELSE IF ~f.upload.readable
          THEN Reject(f, 500, "Internal server error")
          ELSE IF f.upload.chars = 0 \/ f.upload.chars < MinPolicyChars
          THEN Reject(f, 400, "PDF appears to be empty or unreadable")
          ELSE [f EXCEPT !.pc = "validate", !.policy_text = f.upload.chars])
  /\ UNCHANGED <<vectorstore, audits_collection>>

\* main.py:204-214
BatchValidate(r) ==
  /\ run[r].mode = "batch" /\ run[r].pc = "validate"
  /\ \E llm \in ValidatorOutcomes :
       LET f == [run[r] EXCEPT !.calls = Append(@, ValidateCall(run[r])),
                               !.validation_result = validate_policy_document(llm)]
           verdict == ValidationVerdict(f.validation_result)
       IN Set(r,
            IF verdict = "raise" THEN Reject(f, 500, "Internal server error")
            ELSE IF verdict = "reject"
            THEN Reject(f, 400, "Document does not appear to be a policy document")
            ELSE [f EXCEPT !.pc = "extract_rules"])
  /\ UNCHANGED <<vectorstore, audits_collection>>

\* main.py:216-224
BatchExtractRules(r) ==
  /\ run[r].mode = "batch" /\ run[r].pc = "extract_rules"
  /\ \E llm \in ExtractorOutcomes :
       LET f == [run[r] EXCEPT !.calls = Append(@, ExtractCall(run[r])),
                               !.rules = extract_policy_rules(llm)]
       IN /\ WithinMatrixBound(f.rules)
          /\ Set(r,
               IF f.rules = <<>>
               THEN Reject(f, 500, "Failed to extract rules from policy")
               ELSE [f EXCEPT !.pc = "get_models"])
  /\ UNCHANGED <<vectorstore, audits_collection>>

\* main.py:226-233 and the prologue of run_full_audit (audit.py:287-289)
BatchGetModels(r) ==
  /\ run[r].mode = "batch" /\ run[r].pc = "get_models"
  /\ \E get_ok \in BOOLEAN :
       LET f == run[r]
           names == get_available_models(vectorstore)
       IN Set(r,
            IF ~get_ok THEN Reject(f, 500, "Internal server error")
            ELSE IF names = <<>>
            THEN Reject([f EXCEPT !.model_names = names], 500,
                        "No models found in vector store")
            ELSE [f EXCEPT !.model_names = names, !.pc = "audit",
                           !.audit_results = <<>>,
                           !.total_audits = Len(names) * Len(f.rules),
                           !.current = 0, !.i = 1, !.j = 1])
  /\ UNCHANGED <<vectorstore, audits_collection>>

\* one pass through the body of the inner loop of run_full_audit
\* (audit.py:293-308); an exception leaving the cell leaves run_full_audit
\* and is turned into a 500 by analyze_policy (main.py:260-265)
BatchAuditCell(r) ==
  /\ run[r].mode = "batch" /\ run[r].pc = "audit"
  /\ \E ret \in RetrievalOutcomes, llm \in RunJudgeOutcomes :
       LET f == run[r]
           model_name == f.model_names[f.i]
           rule == f.rules[f.j]
           res == audit_model_against_rule(model_name, rule, ret, llm)
           g == [f EXCEPT !.current = @ + 1,
                          !.calls = @ \o res.calls,
                          !.evaluated = Append(@, <<f.i, f.j>>)]
           next == NextCell(f.i, f.j, Len(f.rules))
       IN Set(r,
            IF res.raised THEN Reject(g, 500, "Internal server error")
            ELSE [g EXCEPT
                    !.audit_results = Append(@, AuditItem(model_name, rule, res.evidence)),
                    !.i = next[1], !.j = next[2],
                    !.pc = IF next[1] > Len(f.model_names) THEN "store" ELSE "audit"])
  /\ UNCHANGED <<vectorstore, audits_collection>>

\* variant: the response is stored a second time after a successful insert
BatchStore_StoresTwice(r) ==
  /\ run[r].mode = "batch" /\ run[r].pc = "store"
  /\ \E insert_ok \in BOOLEAN :
       LET f == run[r]
           response == AuditResponse(f.upload.filename, f.rules,
                                     f.model_names, f.audit_results)
       IN /\ audits_collection' =
               IF insert_ok
               THEN audits_collection \o <<audit_doc(response), audit_doc(response)>>
               ELSE audits_collection
          /\ Set(r, [f EXCEPT !.pc = "done",
                              !.calls = IF insert_ok
                                        THEN @ \o <<InsertCall(TRUE), InsertCall(TRUE)>>
                                        ELSE Append(@, InsertCall(FALSE)),
                              !.stored_id = IF insert_ok
                                            THEN Len(audits_collection) + 1 ELSE 0,
                              !.response = [status |-> 200, detail |-> "",
                                            body |-> response]])
  /\ UNCHANGED vectorstore

\* variant: the store replaces the document of the same policy name
BatchStore_Upserts(r) ==
  /\ run[r].mode = "batch" /\ run[r].pc = "store"
  /\ \E insert_ok \in BOOLEAN :
       LET f == run[r]
           response == AuditResponse(f.upload.filename, f.rules,
                                     f.model_names, f.audit_results)
           at == IF audits_collection = <<>> THEN 1 ELSE Len(audits_collection)
       IN /\ audits_collection' =
               IF ~insert_ok THEN audits_collection
               ELSE IF audits_collection = <<>> THEN <<audit_doc(response)>>
               ELSE [audits_collection EXCEPT ![at] = audit_doc(response)]
          /\ Set(r, [f EXCEPT !.pc = "done",
                              !.calls = Append(@, InsertCall(insert_ok)),
                              !.stored_id = IF insert_ok THEN at ELSE 0,
                              !.response = [status |-> 200, detail |-> "",
                                            body |-> response]])
  /\ UNCHANGED vectorstore

\* main.py:239-256 with store_audit_result (database.py:16-38): a failed
\* insert is logged and the response is returned all the same
BatchStore(r) ==
  /\ run[r].mode = "batch" /\ run[r].pc = "store"
  /\ \E insert_ok \in BOOLEAN :
       LET f == run[r]
           response == AuditResponse(f.upload.filename, f.rules,
                                     f.model_names, f.audit_results)
       IN /\ audits_collection' =
               IF insert_ok THEN Append(audits_collection, audit_doc(response))
               ELSE audits_collection
          /\ Set(r, [f EXCEPT !.pc = "done",
                              !.calls = Append(@, InsertCall(insert_ok)),
                              !.stored_id = IF insert_ok
                                            THEN Len(audits_collection) + 1 ELSE 0,
                              !.response = [status |-> 200, detail |-> "",
                                            body |-> response]])
  /\ UNCHANGED vectorstore


\* --------------- main.py: analyze_policy_stream.event_generator (streaming)
\* The generator is suspended at a yield between two actions; pc names the
\* yield it is suspended at.
Yield(frame, ev, at) == [frame EXCEPT !.events = Append(@, ev), !.pc = at]

Progress(stage) == [event |-> "progress", stage |-> stage]

\* variant: the return after the error yield is missing and the
\* generator carries on from where it was
YieldError_NoReturn(frame, message) ==
  [frame EXCEPT !.events = Append(@, [event |-> "error", error |-> message])]

\* an "error" event: either yield-and-return inside the try block or the
\* yield of the except clause (main.py:456-460); the generator ends when it
\* is resumed
YieldError(frame, message) ==
  Yield(frame, [event |-> "error", error |-> message], "s_error")

\* main.py:278-303: the endpoint's checks, then the first yield
StreamBegin(r) ==
  /\ run[r].mode = "stream" /\ run[r].pc = "start"
  /\ LET f == run[r]
         guard == EndpointGuard(f.upload)
     IN Set(r,
          IF guard # NoResponse THEN [f EXCEPT !.pc = "done", !.response = guard]
          ELSE Yield([f EXCEPT !.response = Http(200, "text/event-stream")],
                     Progress("extraction"), "s_extraction"))
  /\ UNCHANGED <<vectorstore, audits_collection>>

\* main.py:305-321
StreamExtractText(r) ==
  /\ run[r].mode = "stream" /\ run[r].pc = "s_extraction"
  /\ LET f == run[r]
     IN Set(r,
          IF ~f.upload.readable THEN YieldError(f, "str(e)")
          ELSE IF f.upload.chars = 0 \/ f.upload.chars < MinPolicyChars
          THEN YieldError([f EXCEPT !.policy_text = f.upload.chars],
                          "PDF appears to be empty or unreadable")
          ELSE Yield([f EXCEPT !.policy_text = f.upload.chars],
                     Progress("validation"), "s_validation"))
  /\ UNCHANGED <<vectorstore, audits_collection>>

\* main.py:323-340
StreamValidate(r) ==
  /\ run[r].mode = "stream" /\ run[r].pc = "s_validation"
  /\ \E llm \in ValidatorOutcomes :
       LET f == [run[r] EXCEPT !.calls = Append(@, ValidateCall(run[r])),
                               !.validation_result = validate_policy_document(llm)]
           verdict == ValidationVerdict(f.validation_result)
       IN Set(r,
            IF verdict = "raise" THEN YieldError(f, "str(e)")
            ELSE IF verdict = "reject"
            THEN YieldError(f, "Document does not appear to be a policy.")
            ELSE Yield(f, Progress("validation_passed"), "s_validation_passed"))
  /\ UNCHANGED <<vectorstore, audits_collection>>

\* main.py:342-349
StreamRules(r) ==
  /\ run[r].mode = "stream" /\ run[r].pc = "s_validation_passed"
  /\ Set(r, Yield(run[r], Progress("rules"), "s_rules"))
  /\ UNCHANGED <<vectorstore, audits_collection>>

\* main.py:351-367
StreamExtractRules(r) ==
  /\ run[r].mode = "stream" /\ run[r].pc = "s_rules"
  /\ \E llm \in ExtractorOutcomes :
       LET f == [run[r] EXCEPT !.calls = Append(@, ExtractCall(run[r])),
                               !.rules = extract_policy_rules(llm)]
       IN /\ WithinMatrixBound(f.rules)
          /\ Set(r,
               IF f.rules = <<>>
               THEN YieldError(f, "Failed to extract rules from policy")
               ELSE Yield(f, [event |-> "progress", stage |-> "rules_extracted",
                              total_rules |-> Len(f.rules)],
                          "s_rules_extracted"))
  /\ UNCHANGED <<vectorstore, audits_collection>>

\* variant: audit_start announces the number of cells as total_rules
StreamGetModels_AnnouncesCells(r) ==
  /\ run[r].mode = "stream" /\ run[r].pc = "s_rules_extracted"
  /\ \E get_ok \in BOOLEAN :
       LET f == run[r]
           names == get_available_models(vectorstore)
           total == Len(names) * Len(f.rules)
       IN Set(r,
            IF ~get_ok THEN YieldError(f, "str(e)")
            ELSE Yield([f EXCEPT !.model_names = names, !.total_audits = total,
                                 !.audit_results = <<>>, !.completed = 0,
                                 !.i = 1, !.j = 1],
                       [event |-> "progress", stage |-> "audit_start",
                        total_models |-> Len(names), total_rules |-> total,
                        total_audits |-> total],
                       "s_audit_start"))
  /\ UNCHANGED <<vectorstore, audits_collection>>

\* main.py:369-386
StreamGetModels(r) ==
  /\ run[r].mode = "stream" /\ run[r].pc = "s_rules_extracted"
  /\ \E get_ok \in BOOLEAN :
       LET f == run[r]
           names == get_available_models(vectorstore)
           total == Len(names) * Len(f.rules)
       IN Set(r,
            IF ~get_ok THEN YieldError(f, "str(e)")
            ELSE Yield([f EXCEPT !.model_names = names, !.total_audits = total,
                                 !.audit_results = <<>>, !.completed = 0,
                                 !.i = 1, !.j = 1],
                       [event |-> "progress", stage |-> "audit_start",
                        total_models |-> Len(names), total_rules |-> Len(f.rules),
                        total_audits |-> total],
                       "s_audit_start"))
  /\ UNCHANGED <<vectorstore, audits_collection>>

\* main.py:388-403: the loops have a next cell; its "auditing" event
StreamProgress(r) ==
  /\ run[r].mode = "stream" /\ run[r].pc \in {"s_audit_start", "s_result"}
  /\ run[r].i <= Len(run[r].model_names)
  /\ LET f == run[r]
     IN Set(r, Yield(f, [event |-> "progress", stage |-> "auditing",
                         model |-> f.model_names[f.i], model_number |-> f.i,
                         total_models |-> Len(f.model_names),
                         rule_number |-> f.j, total_rules |-> Len(f.rules),
                         rule_category |-> f.rules[f.j].category],
                     "s_auditing"))
  /\ UNCHANGED <<vectorstore, audits_collection>>

\* main.py:405-430: the cell is evaluated and its "result" event yielded;
\* an exception leaving the cell reaches the except clause (main.py:456)
StreamAuditCell(r) ==
  /\ run[r].mode = "stream" /\ run[r].pc = "s_auditing"
  /\ \E ret \in RetrievalOutcomes, llm \in RunJudgeOutcomes :
       LET f == run[r]
           model == f.model_names[f.i]
           rule == f.rules[f.j]
           res == audit_model_against_rule(model, rule, ret, llm)
           g == [f EXCEPT !.calls = @ \o res.calls,
                          !.evaluated = Append(@, <<f.i, f.j>>)]
           next == NextCell(f.i, f.j, Len(f.rules))
       IN Set(r,
            IF res.raised THEN YieldError(g, "str(e)")
            ELSE Yield([g EXCEPT
                          !.audit_results = Append(@, StreamItem(model, rule, res.evidence)),
                          !.completed = @ + 1,
                          !.i = next[1], !.j = next[2]],
                       [event |-> "result", model |-> model, rule_id |-> rule.id,
                        rule_category |-> rule.category,
                        rule_question |-> rule.question,
                        status |-> res.evidence.status,
                        completed |-> f.completed + 1, total |-> f.total_audits,
                        progress |-> RoundTenths(f.completed + 1, f.total_audits)],
                       "s_result"))
  /\ UNCHANGED <<vectorstore, audits_collection>>

\* main.py:432-454: the loops are over; the collected dicts are turned
\* into AuditItems, the AuditResponse is stored and "complete" is yielded.
\* A ValidationError or a failed insert reaches the except clause.
StreamFinish(r) ==
  /\ run[r].mode = "stream" /\ run[r].pc \in {"s_audit_start", "s_result"}
  /\ run[r].i > Len(run[r].model_names)
  /\ LET f == run[r]
     IN IF \E k \in 1..Len(f.audit_results) : ~AuditItemValid(f.audit_results[k])
        THEN /\ Set(r, YieldError(f, "str(e)"))
             /\ UNCHANGED audits_collection
        ELSE \E insert_ok \in BOOLEAN :
               LET response ==
                     AuditResponse(f.upload.filename, f.rules, f.model_names,
                       [k \in 1..Len(f.audit_results) |->
                          AuditItemFromDict(f.audit_results[k])])
                   stored_id == Len(audits_collection) + 1
                   g == [f EXCEPT !.calls = Append(@, InsertCall(insert_ok))]
               IN IF ~insert_ok
                  THEN /\ Set(r, YieldError(g, "str(e)"))
                       /\ UNCHANGED audits_collection
                  ELSE /\ audits_collection' =
                            Append(audits_collection, audit_doc(response))
                       /\ Set(r, Yield([g EXCEPT !.stored_id = stored_id],
                                   [event |-> "complete",
                                    total_rules |-> Len(f.rules),
                                    total_models |-> Len(f.model_names),
                                    total_audits |-> Len(f.audit_results),
                                    audit_id |-> stored_id],
                                   "s_complete"))
  /\ UNCHANGED vectorstore

\* the generator is resumed after its last yield and ends
StreamClose(r) ==
  /\ run[r].mode = "stream" /\ run[r].pc \in {"s_error", "s_complete"}
  /\ Set(r, [run[r] EXCEPT !.pc = "done"])
  /\ UNCHANGED <<vectorstore, audits_collection>>

\* ---------------------------------------------------------- specification
Next ==
  \E r \in RunIds :
    \/ BatchBegin(r)
    \/ BatchValidate(r)
    \/ BatchExtractRules(r)
    \/ BatchGetModels(r)
    \/ BatchAuditCell(r)
    \/ BatchStore(r)
    \/ StreamBegin(r)
    \/ StreamExtractText(r)
    \/ StreamValidate(r)
    \/ StreamRules(r)
    \/ StreamExtractRules(r)
    \/ StreamGetModels(r)
    \/ StreamProgress(r)
    \/ StreamAuditCell(r)
    \/ StreamFinish(r)
    \/ StreamClose(r)

Spec == Init /\ [][Next]_vars

\* ------------------------------------ the consumer of a stream disconnects
\* The generator is suspended at one of its yields when the consumer goes
\* away; it is then closed instead of resumed.  Closing raises GeneratorExit
\* (or CancelledError) at the yield, which except Exception (main.py:456)
\* does not catch, and the generator has no finally clause.
YieldPoints ==
  {"s_extraction", "s_validation", "s_validation_passed", "s_rules",
   "s_rules_extracted", "s_audit_start", "s_auditing", "s_result",
   "s_error", "s_complete"}

\* variant: a finally clause stores what has been collected so far
StreamDisconnect_StoresPartial(r) ==
  /\ run[r].mode = "stream" /\ run[r].pc \in YieldPoints
  /\ audits_collection' =
       Append(audits_collection,
              audit_doc(AuditResponse(run[r].upload.filename, run[r].rules,
                                      run[r].model_names, run[r].audit_results)))
  /\ Set(r, [run[r] EXCEPT !.pc = "done", !.disconnected = TRUE,
                           !.calls = Append(@, InsertCall(TRUE))])
  /\ UNCHANGED vectorstore

StreamDisconnect(r) ==
  /\ run[r].mode = "stream" /\ run[r].pc \in YieldPoints
  /\ Set(r, [run[r] EXCEPT !.pc = "done", !.disconnected = TRUE])
  /\ UNCHANGED <<vectorstore, audits_collection>>

DisconnectNext == Next \/ \E r \in RunIds : StreamDisconnect(r)

DisconnectSpec == Init /\ [][DisconnectNext]_vars

\* ------------------------------------------------- two concurrent runs
\* Two requests are served at once.  Each run starts where its rules have
\* been extracted (validation failed open, the judgment model emitted one or
\* two rules); the steps of the two runs interleave from there on.
ConcRunIds == {1, 2}

GoodUpload ==
  CHOOSE u \in Uploads :
    EndsWithPdf(u.filename) /\ u.readable /\ u.chars = MinPolicyChars

ConcRuleLists ==
  { extract_policy_rules(LlmText(<<"value">>, JRuleList(items))) :
      items \in { <<JRule(JStr("1"), JStr("Safety"), JStr("Is red-teaming documented?"))>>,
                  <<JRule(JStr("2"), JStr("Data"), JStr("Is the training data disclosed?")),
                    JRule(JStr("1"), JStr("Safety"), JStr("Is red-teaming documented?"))>> } }

\* the frame of a batch run after main.py:179-224
BatchPastExtraction(rules) ==
  LET f1 == [InitRun("batch", GoodUpload) EXCEPT
               !.pc = "validate", !.policy_text = GoodUpload.chars]
      f2 == [f1 EXCEPT !.calls = Append(@, ValidateCall(f1)),
                       !.validation_result = FailOpenValidation,
                       !.pc = "extract_rules"]
  IN [f2 EXCEPT !.calls = Append(@, ExtractCall(f2)), !.rules = rules,
                !.pc = "get_models"]

\* the frame of a streaming run after main.py:278-367
StreamPastExtraction(rules) ==
  LET f0 == InitRun("stream", GoodUpload)
      f1 == Yield([f0 EXCEPT !.response = Http(200, "text/event-stream")],
                  Progress("extraction"), "s_extraction")
      f2 == Yield([f1 EXCEPT !.policy_text = GoodUpload.chars],
                  Progress("validation"), "s_validation")
      f3 == Yield([f2 EXCEPT !.calls = Append(@, ValidateCall(f2)),
                             !.validation_result = FailOpenValidation],
                  Progress("validation_passed"), "s_validation_passed")
      f4 == Yield(f3, Progress("rules"), "s_rules")
      f5 == [f4 EXCEPT !.calls = Append(@, ExtractCall(f4)), !.rules = rules]
  IN Yield(f5, [event |-> "progress", stage |-> "rules_extracted",
                total_rules |-> Len(rules)],
           "s_rules_extracted")

ConcInit ==
  /\ vectorstore \in
       {[initialized |-> TRUE, model_names |-> S] : S \in SUBSET ModelNames}
  /\ audits_collection = <<>>
  /\ run \in [ConcRunIds ->
       {BatchPastExtraction(rules) : rules \in ConcRuleLists}
       \cup {StreamPastExtraction(rules) : rules \in ConcRuleLists}]
  /\ \A r \in ConcRunIds :
       Len(run[r].rules) * Cardinality(vectorstore.model_names) <= MaxConcCells

ConcNext ==
  \E r \in ConcRunIds :
    \/ BatchGetModels(r)
    \/ BatchAuditCell(r)
    \/ BatchStore(r)
    \/ StreamGetModels(r)
    \/ StreamProgress(r)
    \/ StreamAuditCell(r)
    \/ StreamFinish(r)
    \/ StreamClose(r)

ConcSpec == ConcInit /\ [][ConcNext]_vars

\* ------------------------------------------ an external call never returns
\* vectorstore.similarity_search (audit.py:196-200) and call_groq
\* (audit.py:16-30) are called without a timeout argument and without a
\* surrounding deadline: a call that does not return blocks the cell, and
\* with it the run, for good.  A timeout raised by a client library is one
\* of the exceptions the retrieval and judgment outcomes already cover.
CellStall(r) ==
  /\ \/ run[r].mode = "batch" /\ run[r].pc = "audit"
     \/ run[r].mode = "stream" /\ run[r].pc = "s_auditing"
  /\ Set(r, [run[r] EXCEPT !.pc = "blocked", !.stalled = TRUE,
                           !.evaluated = Append(@, <<run[r].i, run[r].j>>)])
  /\ UNCHANGED <<vectorstore, audits_collection>>

StallNext == Next \/ \E r \in RunIds : CellStall(r)

\* a handler that can take a step takes it
StallSpec == Init /\ [][StallNext]_vars /\ WF_vars(StallNext)


\* ------------------------- a direct call of audit_model_against_rule
\* rules a cell may be called with
CellRules ==
  Range(get_fallback_rules)
  \cup {MakeRule(d.id.s, d.category.s, d.question.s) : d \in {e \in EmittedRules : RuleValid(e)}}

CellInit ==
  /\ vectorstore \in {[initialized |-> TRUE, model_names |-> {m}] : m \in ModelNames}
  /\ audits_collection = <<>>
  /\ run \in [RunIds ->
       {[InitRun("cell", CHOOSE u \in Uploads : u.chars = MinPolicyChars)
           EXCEPT !.pc = "cell_call", !.rules = <<rule>>,
                  !.model_names = get_available_models(vectorstore),
                  !.i = 1, !.j = 1] : rule \in CellRules}]

\* evidence = audit_model_against_rule(vectorstore, model_name, rule)
CellCall(r) ==
  /\ run[r].mode = "cell" /\ run[r].pc = "cell_call"
  /\ \E ret \in RetrievalOutcomes, llm \in JudgeOutcomes :
       LET f == run[r]
           res == audit_model_against_rule(f.model_names[f.i], f.rules[f.j], ret, llm)
       IN Set(r, [f EXCEPT !.pc = "cell_done",
                           !.cell_in = [ret |-> ret, llm |-> llm],
                           !.cell_out = res,
                           !.calls = @ \o res.calls,
                           !.evaluated = Append(@, <<f.i, f.j>>)])
  /\ UNCHANGED <<vectorstore, audits_collection>>

CellNext == \E r \in RunIds : CellCall(r)

CellSpec == CellInit /\ [][CellNext]_vars

\* ------------------------------------ one call of extract_policy_rules
\* policy texts around the 15000-character truncation of audit.py:107-108
PolicyLengths == {MinPolicyChars, 15000, 15001}

ExtractInit ==
  /\ vectorstore = [initialized |-> TRUE, model_names |-> {}]
  /\ audits_collection = <<>>
  /\ run \in [RunIds ->
       {[InitRun("extract", CHOOSE u \in Uploads : u.chars = MinPolicyChars)
           EXCEPT !.pc = "extract_call", !.policy_text = n] : n \in PolicyLengths}]

\* rules = extract_policy_rules(policy_text)
ExtractRulesCall(r) ==
  /\ run[r].mode = "extract" /\ run[r].pc = "extract_call"
  /\ \E llm \in ExtractorOutcomes :
       LET f == run[r]
       IN Set(r, [f EXCEPT !.pc = "extract_done",
                           !.extract_in = llm,
                           !.rules = extract_policy_rules(llm),
                           !.calls = Append(@, ExtractCall(f))])
  /\ UNCHANGED <<vectorstore, audits_collection>>

ExtractNext == \E r \in RunIds : ExtractRulesCall(r)

ExtractSpec == ExtractInit /\ [][ExtractNext]_vars

\* ------------------------- calls of calculate_dashboard_stats (/export)
\* The request body of /export is any valid AuditResponse: its items are
\* AuditItems over the stored models and two rules, each with a PASS
\* verdict or the no-documentation FAIL.
DashRules == <<get_fallback_rules[1], get_fallback_rules[2]>>

DashEvidences ==
  { Evidence(NoDocumentationKwargs).value,
    Evidence(VerdictKwargs(clamp_confidence(
      JVerdict(JStr("PASS"), JNum(85), JStr("quoted text"),
               JStr("verdict reason"))))).value }

DashItems ==
  {AuditItem(m, rule, ev) : m \in ModelNames, rule \in Range(DashRules),
                            ev \in DashEvidences}

DashInit ==
  /\ vectorstore = [initialized |-> TRUE, model_names |-> ModelNames]
  /\ audits_collection = <<>>
  /\ run \in [RunIds ->
       {[InitRun("export", CHOOSE u \in Uploads : u.chars = MinPolicyChars)
           EXCEPT !.pc = "dash_call", !.rules = DashRules,
                  !.audit_results = items] :
          items \in SeqsUpTo(DashItems, MaxItems)}]

\* variant: the items are consumed while they are counted
CallDashboard_ConsumesInput(f) ==
  [f EXCEPT !.stats_log = Append(@, calculate_dashboard_stats(f.audit_results, f.rules)),
            !.audit_results = <<>>,
            !.pc = IF Len(f.stats_log) = 0 THEN "dash_call" ELSE "dash_done"]

\* stats = calculate_dashboard_stats(audit_results, rules): the arguments
\* are only read (main.py:521-524, dashboard.py:25-31)
CallDashboard(f) ==
  [f EXCEPT !.stats_log = Append(@, calculate_dashboard_stats(f.audit_results, f.rules)),
            !.pc = IF Len(f.stats_log) = 0 THEN "dash_call" ELSE "dash_done"]

\* the same report is requested twice
DashCall(r) ==
  /\ run[r].mode = "export" /\ run[r].pc = "dash_call"
  /\ Set(r, CallDashboard(run[r]))
  /\ UNCHANGED <<vectorstore, audits_collection>>

DashNext == \E r \in RunIds : DashCall(r)

DashSpec == DashInit /\ [][DashNext]_vars


\* ================================================================ properties
\* the cell the k-th iteration of the nested loops visits
CellAt(k, nrules) == <<((k - 1) \div nrules) + 1, ((k - 1) % nrules) + 1>>

LexLess(a, b) == a[1] < b[1] \/ (a[1] = b[1] /\ a[2] < b[2])

DistinctIds(rules) ==
  \A a, b \in 1..Len(rules) : a # b => rules[a].id # rules[b].id

CountPair(items, model_name, rule_id) ==
  Cardinality({k \in 1..Len(items) :
                 items[k].model_name = model_name /\ items[k].rule_id = rule_id})

\* the rule an item was built from, in either orchestrator's representation
ItemRule(item) ==
  IF "rule" \in DOMAIN item THEN item.rule
  ELSE MakeRule(item.rule_id, item.rule_category, item.rule_question)

BatchCompleted(r) ==
  run[r].mode = "batch" /\ run[r].pc = "done" /\ run[r].response.status = 200

Orchestrated(r) == run[r].mode \in {"batch", "stream"}

IsAuditing(e) == e.event = "progress" /\ e.stage = "auditing"
IsResult(e) == e.event = "result"
IsTerminal(e) == e.event \in {"error", "complete"}

InsertRefused(r) ==
  \E k \in 1..Len(run[r].calls) :
    run[r].calls[k].service = "insert_one" /\ ~run[r].calls[k].ok

CellDone(r) == run[r].mode = "cell" /\ run[r].pc = "cell_done"

C2_NeverRaises ==
  \A r \in RunIds : CellDone(r) => ~run[r].cell_out.raised

\* ---------------------------------------------------------------------- C3
\* C3: a failed or degraded cell never aborts the run; in both variants a
\* run that has begun evaluating cells ends with all len(models) *
\* len(rules) cells evaluated and as many items collected.
C3_NoCellAbortsRun ==
  \A r \in RunIds :
    (Orchestrated(r) /\ run[r].pc = "done" /\ run[r].evaluated # <<>>) =>
      /\ Len(run[r].evaluated) = Len(run[r].model_names) * Len(run[r].rules)
      /\ Len(run[r].audit_results) = Len(run[r].model_names) * Len(run[r].rules)

\* ---------------------------------------------------------------------- C4
\* C4: a streaming run that has evaluated every cell of a non-empty matrix
\* and whose insert the store did not refuse ends with a "complete" event
\* carrying the identifier of the stored document.
C4_StreamEndsWithComplete ==
  \A r \in RunIds :
    ( /\ run[r].mode = "stream" /\ run[r].pc = "done"
      /\ run[r].total_audits > 0
      /\ Len(run[r].audit_results) = run[r].total_audits
      /\ ~InsertRefused(r) ) =>
      LET last == run[r].events[Len(run[r].events)]
      IN /\ last.event = "complete"
         /\ last.audit_id \in 1..Len(audits_collection)
         /\ Len(audits_collection[last.audit_id].audit_results) = run[r].total_audits

\* ---------------------------------------------------------------------- C5
\* C5: both orchestrators visit the cells in the nested order (models
\* outer, rules inner, each in input order): the k-th cell evaluated is
\* the k-th cell of that enumeration, one cell is evaluated before another
\* exactly when it is lexicographically smaller, and the k-th collected
\* item belongs to the k-th cell evaluated.
C5_NestedOrder ==
  \A r \in RunIds :
    Orchestrated(r) =>
      LET cells == run[r].evaluated
          items == run[r].audit_results
      IN /\ \A k \in 1..Len(cells) : cells[k] = CellAt(k, Len(run[r].rules))
         /\ \A a, b \in 1..Len(cells) : a < b <=> LexLess(cells[a], cells[b])
         /\ Len(items) <= Len(cells)
         /\ \A k \in 1..Len(items) :
              /\ items[k].model_name = run[r].model_names[cells[k][1]]
              /\ ItemRule(items[k]) = run[r].rules[cells[k][2]]

\* a streaming run that has evaluated all four cells of a 2 x 2 matrix
C5_Witness ==
  \E r \in RunIds :
    /\ run[r].mode = "stream"
    /\ Len(run[r].model_names) = 2 /\ Len(run[r].rules) = 2
    /\ Len(run[r].evaluated) = 4 /\ Len(run[r].audit_results) = 4

\* ---------------------------------------------------------------------- C6
\* C6: in a streaming run every cell yields exactly one "auditing"
\* progress event before it is evaluated and exactly one "result" event
\* after; the two kinds alternate, beginning with a progress event, the
\* k-th pair is about the k-th cell, and outside a cell evaluation there
\* are as many result events as auditing events.
C6_ProgressResultPairs ==
  \A r \in RunIds :
    run[r].mode = "stream" =>
      LET cellEvents == SelectSeq(run[r].events,
                                  LAMBDA e : IsAuditing(e) \/ IsResult(e))
          nProgress == Len(SelectSeq(run[r].events, IsAuditing))
          nResult == Len(SelectSeq(run[r].events, IsResult))
      IN /\ \A k \in 1..Len(cellEvents) :
              IF k % 2 = 1 THEN IsAuditing(cellEvents[k]) ELSE IsResult(cellEvents[k])
         /\ nProgress = Len(run[r].evaluated) + (IF run[r].pc = "s_auditing" THEN 1 ELSE 0)
         /\ run[r].pc # "s_auditing" => nResult = nProgress
         /\ \A k \in 1..Len(cellEvents) :
              LET cell == run[r].evaluated[(k + 1) \div 2]
              IN (k % 2 = 0) =>
                   /\ cellEvents[k].model = run[r].model_names[cell[1]]
                   /\ cellEvents[k].rule_id = run[r].rules[cell[2]].id
                   /\ cellEvents[k - 1].model_number = cell[1]
                   /\ cellEvents[k - 1].rule_number = cell[2]

\* ---------------------------------------------------------------------- C7
\* C7: in a streaming run an "error" or "complete" event is the last event
\* of the stream: no event follows it, so no stream holds two terminal
\* events or both kinds.
C7_TerminalEventIsLast ==
  \A r \in RunIds :
    \A k \in 1..Len(run[r].events) :
      IsTerminal(run[r].events[k]) => k = Len(run[r].events)

\* a stream that yielded results, then an "error" event, and has ended
C7_Witness ==
  \E r \in RunIds :
    /\ run[r].mode = "stream" /\ run[r].pc = "done"
    /\ Len(run[r].events) > 0
    /\ run[r].events[Len(run[r].events)].event = "error"
    /\ \E k \in 1..Len(run[r].events) : IsResult(run[r].events[k])

\* ---------------------------------------------------------------------- C8
\* C8: when retrieval returns an empty list the cell returns Evidence
\* FAIL / 20.0 / "No documentation available" and the judgment model is
\* not called.
C8_NoDocumentationDefault ==
  \A r \in RunIds :
    (CellDone(r) /\ run[r].cell_in.ret.kind = "docs" /\ run[r].cell_in.ret.n = 0) =>
      /\ ~run[r].cell_out.raised
      /\ run[r].cell_out.evidence.status = "FAIL"
      /\ run[r].cell_out.evidence.confidence = 20
      /\ run[r].cell_out.evidence.quote = "No documentation available"
      /\ \A k \in 1..Len(run[r].calls) : run[r].calls[k].service # "call_groq"

\* a cell whose retrieval came back empty while the judgment model would
\* have answered with a PASS verdict
C8_Witness ==
  \E r \in RunIds :
    /\ CellDone(r)
    /\ run[r].cell_in.ret.kind = "docs" /\ run[r].cell_in.ret.n = 0
    /\ run[r].cell_in.llm.kind = "text"
    /\ run[r].cell_in.llm.text = <<"value">>
    /\ run[r].cell_in.llm.payload.status = JStr("PASS")

\* ---------------------------------------------------------------------- C9
\* C9: when retrieval returns chunks and the judgment model's text, after
\* fence stripping, is not parseable, the cell returns Evidence FAIL /
\* 10.0 / "Error occurred during analysis" / "Error parsing LLM response.".
C9_ParseFailureEvidence ==
  \A r \in RunIds :
    ( /\ CellDone(r)
      /\ run[r].cell_in.ret.kind = "docs" /\ run[r].cell_in.ret.n > 0
      /\ run[r].cell_in.llm.kind = "text"
      /\ json_loads(clean_response(run[r].cell_in.llm.text)) = "JSONDecodeError" ) =>
      /\ ~run[r].cell_out.raised
      /\ run[r].cell_out.evidence.status = "FAIL"
      /\ run[r].cell_out.evidence.confidence = 10
      /\ run[r].cell_out.evidence.quote = "Error occurred during analysis"
      /\ run[r].cell_out.evidence.reason = "Error parsing LLM response."

\* a cell with chunks whose judgment text keeps a language tag after the
\* opening fence, so that stripping leaves unparseable text
C9_Witness ==
  \E r \in RunIds :
    /\ CellDone(r)
    /\ run[r].cell_in.ret.kind = "docs" /\ run[r].cell_in.ret.n = top_k
    /\ run[r].cell_in.llm.kind = "text"
    /\ run[r].cell_in.llm.text = <<"fence", "junk", "ws", "value", "ws", "fence">>
    /\ ~run[r].cell_out.raised

\* --------------------------------------------------------------------- C10
\* the cell met an error other than a parse failure: retrieval raised, the
\* judgment-model call raised or returned no text, or the parsed response
\* cannot be turned into an Evidence
OtherError(in) ==
  \/ in.ret.kind = "raise"
  \/ /\ in.ret.kind = "docs" /\ in.ret.n > 0
     /\ \/ in.llm.kind # "text"
        \/ /\ json_loads(clean_response(in.llm.text)) = "ok"
           /\ \/ in.llm.payload.type # "object"
              \/ in.llm.payload.status \notin {JStr("PASS"), JStr("FAIL")}
              \/ in.llm.payload.confidence.t = "str"
              \/ in.llm.payload.quote.t # "str"
              \/ in.llm.payload.reason.t # "str"

\* C10: on any error other than a parse failure the cell returns an
\* Evidence with status N/A whose reason starts with "Error during audit: ".
C10_OtherErrorYieldsNA ==
  \A r \in RunIds :
    (CellDone(r) /\ OtherError(run[r].cell_in)) =>
      /\ ~run[r].cell_out.raised
      /\ run[r].cell_out.evidence.status = "N/A"
      /\ run[r].cell_out.evidence.reason = "Error during audit: "

\* --------------------------------------------------------------------- C11
\* the cell reached the success tier: chunks were retrieved and the judgment
\* model's text parsed to an object
ParsedVerdict(in) ==
  /\ in.ret.kind = "docs" /\ in.ret.n > 0
  /\ in.llm.kind = "text"
  /\ json_loads(clean_response(in.llm.text)) = "ok"
  /\ in.llm.payload.type = "object"

\* C11: every Evidence a cell returns has 0 <= confidence <= 100, on every
\* tier that returns one; a reported confidence below 0 becomes 0, one above
\* 100 becomes 100, one in range is kept, and an omitted one becomes 50.
C11_ConfidenceClamped ==
  \A r \in RunIds :
    (CellDone(r) /\ ~run[r].cell_out.raised) =>
      LET c == run[r].cell_out.evidence.confidence
          reported == run[r].cell_in.llm.payload.confidence
      IN /\ 0 <= c /\ c <= 100
         /\ ParsedVerdict(run[r].cell_in) =>
              /\ reported.t = "missing" => c = 50
              /\ (reported.t = "num" /\ reported.n < 0) => c = 0
              /\ (reported.t = "num" /\ reported.n > 100) => c = 100
              /\ (reported.t = "num" /\ 0 <= reported.n /\ reported.n <= 100)
                   => c = reported.n

\* a returned verdict whose reported confidence was above the range
C11_Witness ==
  \E r \in RunIds :
    /\ CellDone(r) /\ ~run[r].cell_out.raised
    /\ ParsedVerdict(run[r].cell_in)
    /\ run[r].cell_in.llm.payload.confidence = JNum(150)
    /\ run[r].cell_out.evidence.confidence = 100

\* --------------------------------------------------------------------- C12
ExtractDone(r) == run[r].mode = "extract" /\ run[r].pc = "extract_done"

\* the judgment-model call failed, its text is not parseable, or the parsed
\* data cannot be converted to rules
ExtractionFailed(llm) ==
  \/ llm.kind # "text"
  \/ json_loads(clean_response(llm.text)) = "JSONDecodeError"
  \/ llm.payload.type = "object"
  \/ \E k \in 1..Len(llm.payload.items) :
        \/ llm.payload.items[k].id.t # "str"
        \/ llm.payload.items[k].category.t # "str"
        \/ llm.payload.items[k].question.t # "str"

\* C12: extract_policy_rules never raises; whenever the judgment-model call
\* fails, its response is not parseable, or the parsed data cannot be
\* converted to rules, it returns exactly the 5 fallback rules (Safety, Data,
\* Transparency, Evaluation, Documentation) with ids "1".."5" in that order.
C12_FallbackRules ==
  \A r \in RunIds :
    (ExtractDone(r) /\ ExtractionFailed(run[r].extract_in)) =>
      /\ Len(run[r].rules) = 5
      /\ [k \in 1..5 |-> run[r].rules[k].id] = <<"1", "2", "3", "4", "5">>
      /\ [k \in 1..5 |-> run[r].rules[k].category]
           = <<"Safety", "Data", "Transparency", "Evaluation", "Documentation">>

\* a parseable list whose second item lacks its question
C12_Witness ==
  \E r \in RunIds :
    /\ ExtractDone(r)
    /\ run[r].extract_in.kind = "text"
    /\ json_loads(clean_response(run[r].extract_in.text)) = "ok"
    /\ run[r].extract_in.payload.type = "array"
    /\ Len(run[r].extract_in.payload.items) = 2
    /\ run[r].extract_in.payload.items[1].question.t = "str"
    /\ run[r].extract_in.payload.items[2].question.t = "missing"
    /\ run[r].rules = get_fallback_rules

\* --------------------------------------------------------------------- C13
\* C13: every list extract_policy_rules returns contains exactly 5 rules,
\* whatever parseable list the judgment model emits.
C13_ExactlyFiveRules ==
  \A r \in RunIds : ExtractDone(r) => Len(run[r].rules) = 5

\* --------------------------------------------------------------------- C14
\* the run has made the validator's judgment-model call
Validated(r) ==
  /\ Orchestrated(r)
  /\ \E k \in 1..Len(run[r].calls) :
       /\ "purpose" \in DOMAIN run[r].calls[k]
       /\ run[r].calls[k].purpose = "validate"

\* the validation step produced no verdict of the judgment model: either
\* the fail-open result or parsed data lacking an expected field
ValidationDegraded(v) ==
  \/ v = FailOpenValidation
  \/ v.type # "object"
  \/ v.is_policy.t = "missing"
  \/ v.reasoning.t = "missing"

\* the run went past validation instead of ending there
ProceededToExtraction(r) ==
  IF run[r].mode = "stream"
  THEN \E k \in 1..Len(run[r].events) :
         /\ run[r].events[k].event = "progress"
         /\ run[r].events[k].stage = "validation_passed"
  ELSE LET last == run[r].calls[Len(run[r].calls)]
       IN ~(run[r].pc = "done" /\ "purpose" \in DOMAIN last
                                /\ last.purpose = "validate")

\* C14: for every outcome of the validator's judgment-model call that is
\* not a verdict (exception, unparseable text, parseable text lacking the
\* expected fields) the validation step yields is_policy = true with a
\* reasoning, and the run proceeds to rule extraction instead of failing.
C14_ValidationFailsOpen ==
  \A r \in RunIds :
    (Validated(r) /\ ValidationDegraded(run[r].validation_result)) =>
      /\ run[r].validation_result.type = "object"
      /\ run[r].validation_result.is_policy = JBool(TRUE)
      /\ run[r].validation_result.reasoning.t = "str"
      /\ ProceededToExtraction(r)

\* --------------------------------------------------------------------- C15
\* every report the aggregator has produced for run r satisfies P
Reported(r, P(_, _)) ==
  \A n \in 1..Len(run[r].stats_log) : P(run[r].audit_results, run[r].stats_log[n])

CountItems(items, m, statuses) ==
  Cardinality({k \in 1..Len(items) :
                 items[k].model_name = m /\ items[k].evidence.status \in statuses})

\* score (in tenths) is num / den * 100 to the one decimal the report keeps
IsPercentOf(score, num, den) ==
  2 * (score * den - 1000 * num) <= den /\ 2 * (1000 * num - score * den) <= den

C15_Holds(items, stats) ==
  \A k \in 1..Len(stats.model_rankings) :
    LET e == stats.model_rankings[k]
        pass == CountItems(items, e.model_name, {"PASS"})
        fail == CountItems(items, e.model_name, {"FAIL"})
    IN /\ e.pass_count = pass /\ e.fail_count = fail
       /\ IF pass + fail = 0 THEN e.compliance_score = 0
          ELSE IsPercentOf(e.compliance_score, pass, pass + fail)

\* C15: each model's compliance_score equals pass_count / (pass_count +
\* fail_count) * 100 over that model's items, at the one decimal the report
\* keeps, and every model of the result set has one entry.
C15_ComplianceScore ==
  \A r \in RunIds :
    run[r].mode = "export" =>
      /\ Reported(r, C15_Holds)
      /\ \A n \in 1..Len(run[r].stats_log) :
           {run[r].stats_log[n].model_rankings[k].model_name :
              k \in 1..Len(run[r].stats_log[n].model_rankings)}
             = {run[r].audit_results[k].model_name : k \in 1..Len(run[r].audit_results)}

\* a report over a model with one PASS and two FAIL items: 33.3
C15_Witness ==
  \E r \in RunIds :
    /\ run[r].mode = "export" /\ Len(run[r].stats_log) > 0
    /\ \E k \in 1..Len(run[r].stats_log[1].model_rankings) :
         LET e == run[r].stats_log[1].model_rankings[k]
         IN e.pass_count = 1 /\ e.fail_count = 2 /\ e.compliance_score = 333

\* --------------------------------------------------------------------- C16
CountStatus(items, statuses) ==
  Cardinality({k \in 1..Len(items) : items[k].evidence.status \in statuses})

C16_Holds(items, stats) ==
  LET pass == CountStatus(items, {"PASS"})
      fail == CountStatus(items, {"FAIL"})
  IN /\ stats.total_pass = pass /\ stats.total_fail = fail
     /\ IF pass + fail = 0 THEN stats.overall_compliance = 0
        ELSE IsPercentOf(stats.overall_compliance, pass, pass + fail)

\* C16: overall_compliance equals total_pass / (total_pass + total_fail) *
\* 100 over the whole result set, at the one decimal the report keeps: the
\* per-model formula applied to all items.
C16_OverallCompliance ==
  \A r \in RunIds : run[r].mode = "export" => Reported(r, C16_Holds)

\* a report over two models, two PASS and one FAIL in all: 66.7
C16_Witness ==
  \E r \in RunIds :
    /\ run[r].mode = "export" /\ Len(run[r].stats_log) > 0
    /\ Len(run[r].stats_log[1].model_rankings) = 2
    /\ run[r].stats_log[1].total_pass = 2
    /\ run[r].stats_log[1].total_fail = 1
    /\ run[r].stats_log[1].overall_compliance = 667

\* --------------------------------------------------------------------- C17
\* the position of model m's first item in audit_results
FirstIndex(items, m) ==
  CHOOSE k \in 1..Len(items) :
    /\ items[k].model_name = m
    /\ \A h \in 1..(k - 1) : items[h].model_name # m

C17_Holds(items, stats) ==
  \A a, b \in 1..Len(stats.model_rankings) :
    a < b =>
      LET x == stats.model_rankings[a]
          y == stats.model_rankings[b]
      IN /\ x.compliance_score >= y.compliance_score
         /\ x.compliance_score = y.compliance_score =>
              FirstIndex(items, x.model_name) < FirstIndex(items, y.model_name)

\* C17: model_rankings is sorted by compliance_score in non-increasing
\* order, and two models with equal compliance_score keep the relative
\* order of their first appearance in audit_results.
C17_StableRanking ==
  \A r \in RunIds : run[r].mode = "export" => Reported(r, C17_Holds)

\* two models with the same score, the one with the greater name first in
\* audit_results and first in the ranking
C17_Witness ==
  \E r \in RunIds :
    /\ run[r].mode = "export" /\ Len(run[r].stats_log) > 0
    /\ Len(run[r].audit_results) > 0
    /\ run[r].audit_results[1].model_name = 2
    /\ LET rk == run[r].stats_log[1].model_rankings
       IN /\ Len(rk) = 2
          /\ rk[1].compliance_score = rk[2].compliance_score
          /\ rk[1].model_name = 2 /\ rk[2].model_name = 1

\* --------------------------------------------------------------------- C18
C18_Holds(items, stats) ==
  LET rk == stats.model_rankings
  IN IF items = <<>>
     THEN /\ stats.overall_compliance = 0
          /\ stats.best_model = None /\ stats.worst_model = None
          /\ rk = <<>>
     ELSE /\ rk # <<>>
          /\ stats.best_model = Some(rk[1].model_name)
          /\ stats.worst_model = Some(rk[Len(rk)].model_name)
          /\ \A k \in 1..Len(rk) :
               /\ rk[1].compliance_score >= rk[k].compliance_score
               /\ rk[Len(rk)].compliance_score <= rk[k].compliance_score

\* C18: best_model is the first and worst_model the last entry of
\* model_rankings, so best_model has a maximal and worst_model a minimal
\* compliance_score; on an empty audit_results list the report has
\* overall_compliance 0.0, best_model and worst_model null and an empty
\* ranking.
C18_BestWorst ==
  \A r \in RunIds : run[r].mode = "export" => Reported(r, C18_Holds)

\* a report over an empty audit_results list
C18_Witness ==
  \E r \in RunIds :
    /\ run[r].mode = "export" /\ Len(run[r].stats_log) > 0
    /\ run[r].audit_results = <<>>
    /\ run[r].stats_log[1].best_model = None
    /\ run[r].stats_log[1].total_checks = 0

SelfDescribing(r, k) ==
  LET item == run[r].audit_results[k]
      cell == run[r].evaluated[k]
      rule == run[r].rules[cell[2]]
  IN /\ {"model_name", "rule_id", "rule_question", "rule_category"}
          \subseteq DOMAIN item
     /\ item.model_name = run[r].model_names[cell[1]]
     /\ item.rule_id = rule.id
     /\ item.rule_question = rule.question
     /\ item.rule_category = rule.category

\* C20: every item either orchestrator collects is self-describing: its
\* model_name is the cell's model, its rule_id the id of the cell's rule,
\* and its rule_question and rule_category copies of that rule's question
\* and category.
C20_SelfDescribingItems ==
  \A r \in RunIds :
    Orchestrated(r) =>
      \A k \in 1..Len(run[r].audit_results) : SelfDescribing(r, k)

\* --------------------------------------------------------------------- C21
IsInsert(c) == c.service = "insert_one"

\* the inserts run r attempted, and those the store accepted
InsertAttempts(r) ==
  Cardinality({k \in 1..Len(run[r].calls) : IsInsert(run[r].calls[k])})

InsertedBy(r) ==
  Cardinality({k \in 1..Len(run[r].calls) :
                 IsInsert(run[r].calls[k]) /\ run[r].calls[k].ok})

StreamCompleted(r) ==
  /\ run[r].mode = "stream"
  /\ \E k \in 1..Len(run[r].events) : run[r].events[k].event = "complete"

ReportedCompletion(r) == BatchCompleted(r) \/ StreamCompleted(r)

\* the run ended with a rejection or an error
EndedInFailure(r) ==
  \/ run[r].mode = "batch" /\ run[r].pc = "done" /\ run[r].response.status # 200
  \/ /\ run[r].mode = "stream"
     /\ \/ run[r].pc = "done" /\ run[r].response.status # 200
        \/ \E k \in 1..Len(run[r].events) : run[r].events[k].event = "error"

TextTooShort(r) ==
  /\ vectorstore.initialized /\ EndsWithPdf(run[r].upload.filename)
  /\ run[r].upload.readable /\ run[r].upload.chars < 100
  /\ run[r].pc \notin {"start", "s_extraction"}

\* the validator answered {is_policy: false, reasoning: ...}
NotAPolicy(r) ==
  /\ Validated(r)
  /\ run[r].validation_result.type = "object"
  /\ run[r].validation_result.is_policy = JBool(FALSE)
  /\ run[r].validation_result.reasoning.t = "str"

\* HTTP 400 in batch, an "error" event that ends the stream in streaming
RejectedAsInputError(r) ==
  IF run[r].mode = "batch"
  THEN run[r].pc = "done" /\ run[r].response.status = 400
  ELSE /\ run[r].pc \in {"s_error", "done"}
       /\ Len(run[r].events) > 0
       /\ run[r].events[Len(run[r].events)].event = "error"
       /\ run[r].events[Len(run[r].events)].error
            \in {"PDF appears to be empty or unreadable",
                 "Document does not appear to be a policy."}

\* neither rule extraction nor a cell evaluation nor an insert happened
NoAuditWork(r) ==
  /\ \A k \in 1..Len(run[r].calls) :
       /\ run[r].calls[k].service = "call_groq"
       /\ "purpose" \in DOMAIN run[r].calls[k]
       /\ run[r].calls[k].purpose = "validate"
  /\ run[r].rules = <<>> /\ run[r].evaluated = <<>>
  /\ run[r].audit_results = <<>>
  /\ audits_collection = <<>>

Terminated(r) ==
  \/ run[r].pc = "done"
  \/ run[r].mode = "stream" /\ run[r].pc \in {"s_error", "s_complete"}

\* C24: every cell whose external call does not return is ended by a
\* timeout, so every audit run eventually terminates (batch returns, stream
\* emits a terminal event) even when an external call stalls.
C24_EveryRunTerminates ==
  \A r \in RunIds : <>Terminated(r)

\* --------------------------------------------------------------------- C25
\* the items of run r are those of its own cells, in its own enumeration
\* order, and its counters count its own cells
OwnCellsOnly(r) ==
  LET f == run[r]
  IN /\ Len(f.audit_results) <= Len(f.evaluated)
     /\ \A k \in 1..Len(f.evaluated) : f.evaluated[k] = CellAt(k, Len(f.rules))
     /\ \A k \in 1..Len(f.audit_results) :
          /\ f.audit_results[k].model_name = f.model_names[f.evaluated[k][1]]
          /\ ItemRule(f.audit_results[k]) = f.rules[f.evaluated[k][2]]
     /\ f.mode = "stream" => f.completed = Len(f.audit_results)
     /\ f.mode = "batch" => f.current = Len(f.evaluated)

\* run r's document is in the store under the identifier r was given
OwnDocument(r) ==
  /\ run[r].stored_id \in 1..Len(audits_collection)
  /\ audits_collection[run[r].stored_id].rules = run[r].rules
  /\ audits_collection[run[r].stored_id].total_models = Len(run[r].model_names)
  /\ Len(audits_collection[run[r].stored_id].audit_results)
       = Len(run[r].audit_results)
  /\ \A q \in ConcRunIds : (q # r /\ run[q].stored_id # 0) =>
                               run[q].stored_id # run[r].stored_id

ResultEvents(r) == SelectSeq(run[r].events, IsResult)

\* every cell of the matrix has been evaluated and has returned an Evidence
FullyEvaluated(r) ==
  /\ run[r].pc \notin {"start", "s_extraction", "s_validation",
                        "s_validation_passed", "s_rules", "s_rules_extracted"}
  /\ run[r].total_audits > 0
  /\ Len(run[r].audit_results) = run[r].total_audits

\* C26: in a streaming run the "completed" values of successive result
\* events are 1, 2, ... with no gap or repeat; every result event carries
\* total = len(models) * len(rules) and progress = completed / total * 100
\* rounded to one decimal, never above 100; the last result event of a fully
\* evaluated matrix has completed = total and progress = 100.0.
C26_ResultProgress ==
  \A r \in RunIds :
    run[r].mode = "stream" =>
      LET results == ResultEvents(r)
          total == Len(run[r].model_names) * Len(run[r].rules)
      IN /\ \A k \in 1..Len(results) :
              /\ results[k].completed = k
              /\ results[k].total = total
              /\ IsPercentOf(results[k].progress, k, total)
              /\ results[k].progress <= 1000
         /\ FullyEvaluated(r) =>
              /\ Len(results) = total
              /\ results[total].completed = total
              /\ results[total].progress = 1000

\* the second of three cells has been reported: 66.7
C26_Witness ==
  \E r \in RunIds :
    /\ run[r].mode = "stream"
    /\ Len(ResultEvents(r)) = 2
    /\ ResultEvents(r)[2].completed = 2
    /\ ResultEvents(r)[2].total = 3
    /\ ResultEvents(r)[2].progress = 667

\* --------------------------------------------------------------------- C27
\* get_available_models returned its list to run r
GotModels(r) ==
  IF run[r].mode = "batch"
  THEN run[r].pc # "get_models"
       /\ ~(run[r].pc = "done" /\ run[r].response.detail = "Internal server error"
                               /\ run[r].evaluated = <<>>)
  ELSE \E k \in 1..Len(run[r].events) :
         /\ run[r].events[k].event = "progress"
         /\ run[r].events[k].stage = "audit_start"

\* the evidences of the cells run r has collected, in order
Evidences(r) ==
  [k \in 1..Len(run[r].audit_results) |-> run[r].audit_results[k].evidence]

\* a batch run b and a streaming run s were given the same rule list, the
\* same model list and the same collaborator responses
SameInputs(b, s) ==
  /\ run[b].mode = "batch" /\ run[s].mode = "stream"
  /\ run[b].rules = run[s].rules
  /\ GotModels(b) /\ GotModels(s)
  /\ run[b].evaluated = run[s].evaluated
  /\ Evidences(b) = Evidences(s)
  /\ (InsertAttempts(b) = 1 /\ InsertAttempts(s) = 1) =>
       InsertedBy(b) = InsertedBy(s)

\* C27: for the same model list, rule list and collaborator responses the
\* batch and the streaming variant either both reject the run or both
\* complete, and when they complete the streaming variant has persisted the
\* audit_results, total_rules and total_models the batch variant built,
\* including when the model list is empty.
C27_VariantsAgree ==
  \A b, s \in ConcRunIds :
    (SameInputs(b, s) /\ Terminated(b) /\ Terminated(s)) =>
      /\ ReportedCompletion(b) <=> ReportedCompletion(s)
      /\ (ReportedCompletion(b) /\ ReportedCompletion(s)) =>
           LET doc == audits_collection[run[s].stored_id]
               body == run[b].response.body
           IN /\ doc.audit_results = body.audit_results
              /\ doc.total_rules = body.total_rules
              /\ doc.total_models = body.total_models

\* --------------------------------------------------------------------- C28
\* the external calls of the cell: one retrieval call with k = 3 filtered
\* to the cell's model, then at most one judgment-model call, made only when
\* the retrieval returned a non-empty list
CallDiscipline(r) ==
  LET calls == run[r].cell_out.calls
      in == run[r].cell_in
  IN /\ Len(calls) \in {1, 2}
     /\ calls[1].service = "similarity_search"
     /\ calls[1].k = 3
     /\ calls[1].filter = run[r].model_names[run[r].i]
     /\ calls[1].query = run[r].rules[run[r].j].question
     /\ Len(calls) = 2 =>
          /\ calls[2].service = "call_groq"
          /\ in.ret.kind = "docs" /\ in.ret.n > 0
     /\ (in.ret.kind = "docs" /\ in.ret.n > 0) => Len(calls) = 2

\* C28: each cell evaluation issues exactly one retrieval call, with k = 3
\* and a filter equal to the cell's model name, and at most one
\* judgment-model call, which happens only after the retrieval call has
\* returned a non-empty list; the cell produces its Evidence exactly once
\* and never retries an external call.
C28_OneRetrievalOneJudgment ==
  \A r \in RunIds :
    CellDone(r) =>
      /\ CallDiscipline(r)
      /\ ~run[r].cell_out.raised
      /\ run[r].cell_out.evidence # NoEvidence

\* --------------------------------------------------------------------- C29
StageOrder ==
  <<"extraction", "validation", "validation_passed", "rules",
    "rules_extracted", "audit_start">>

IsStage(e) == e.event = "progress" /\ e.stage # "auditing"

\* the positions of the events of run r that satisfy P
Positions(r, P(_)) == {k \in 1..Len(run[r].events) : P(run[r].events[k])}

IsAuditStart(e) == e.event = "progress" /\ e.stage = "audit_start"
IsRulesExtracted(e) == e.event = "progress" /\ e.stage = "rules_extracted"
IsComplete(e) == e.event = "complete"
IsCellEvent(e) == IsAuditing(e) \/ IsResult(e)

\* C29: in every streaming run the stage events appear in the order
\* extraction, validation, validation_passed, rules, rules_extracted,
\* audit_start and are the first events of the stream; no auditing or result
\* event comes before audit_start, audit_start is emitted at most once, and
\* the total_rules of rules_extracted and audit_start is the total_rules of
\* every later auditing event and of the complete event.
C29_StageOrder ==
  \A r \in RunIds :
    run[r].mode = "stream" =>
      LET ev == run[r].events
          stages == SelectSeq(ev, IsStage)
      IN /\ Len(stages) <= Len(StageOrder)
         /\ \A k \in 1..Len(stages) :
              ev[k] = stages[k] /\ stages[k].stage = StageOrder[k]
         /\ Cardinality(Positions(r, IsAuditStart)) <= 1
         /\ \A c \in Positions(r, IsCellEvent) :
              \E a \in Positions(r, IsAuditStart) : a < c
         /\ \A x \in Positions(r, IsRulesExtracted) :
              /\ ev[x].total_rules = Len(run[r].rules)
              /\ \A y \in Positions(r, IsAuditStart) \cup Positions(r, IsAuditing)
                            \cup Positions(r, IsComplete) :
                   x < y /\ ev[y].total_rules = ev[x].total_rules

\* a stream that went through the six stages and reported the first cell
\* of a matrix of two models and two rules
C29_Witness ==
  \E r \in RunIds :
    /\ run[r].mode = "stream"
    /\ Len(run[r].events) = 8
    /\ run[r].events[6].stage = "audit_start"
    /\ run[r].events[6].total_rules = 2
    /\ run[r].events[6].total_models = 2
    /\ IsAuditing(run[r].events[7])
    /\ IsResult(run[r].events[8])

\* --------------------------------------------------------------------- C30
RECURSIVE SumOf(_, _)
SumOf(entries, field) ==
  IF entries = <<>> THEN 0
  ELSE entries[1][field] + SumOf(Tail(entries), field)

C30_Holds(items, stats) ==
  LET rk == stats.model_rankings
      cb == stats.category_breakdown
  IN /\ stats.total_checks = Len(items)
     /\ stats.total_checks = SumOf(rk, "total_rules")
     /\ stats.total_pass = SumOf(rk, "pass_count")
     /\ stats.total_pass = SumOf(cb, "pass_count")
     /\ stats.total_fail = SumOf(rk, "fail_count")
     /\ stats.total_fail = SumOf(cb, "fail_count")
     /\ \A k \in 1..Len(items) :
          Cardinality({n \in 1..Len(rk) : rk[n].model_name = items[k].model_name}) = 1
     /\ \A n \in 1..Len(rk) :
          /\ \E k \in 1..Len(items) : items[k].model_name = rk[n].model_name
          /\ rk[n].pass_count + rk[n].fail_count <= rk[n].total_rules
          /\ (\A k \in 1..Len(items) : items[k].evidence.status \in {"PASS", "FAIL"})
               => rk[n].pass_count + rk[n].fail_count = rk[n].total_rules

\* C30: the counts of a report are consistent: total_checks is the number
\* of input items and the sum of total_rules over model_rankings; total_pass
\* (total_fail) is the sum of pass_count (fail_count) over model_rankings and
\* over category_breakdown; each model of the input has exactly one ranking
\* entry; pass_count + fail_count <= total_rules for each entry, with
\* equality when no item is N/A.
C30_ConsistentCounts ==
  \A r \in RunIds : run[r].mode = "export" => Reported(r, C30_Holds)

\* a report over four items of two models and two categories, passes and
\* failures mixed
C30_Witness ==
  \E r \in RunIds :
    /\ run[r].mode = "export" /\ Len(run[r].stats_log) > 0
    /\ run[r].stats_log[1].total_checks = 4
    /\ run[r].stats_log[1].total_pass = 2
    /\ run[r].stats_log[1].total_fail = 2
    /\ Len(run[r].stats_log[1].model_rankings) = 2
    /\ Len(run[r].stats_log[1].category_breakdown) = 2
    /\ run[r].stats_log[1].model_rankings[1].total_rules = 3


=============================================================================
